---- MODULE Spec2Model ----
(***************************************************************************)
(* A model of vid-playlist-man's harvesting code:                          *)
(*   - DiscordClient::get_json and its shared cooldown (src/discord.rs),    *)
(*   - DiscordClient::get_messages_range, the pagination engine,           *)
(*   - discord::mainfn and cron_event (src/discord.rs, src/lib.rs),        *)
(*   - fetcher::Client::fetch and its retry policy (src/fetcher.rs),       *)
(*   - the snowflake codec of mod utils at full width (src/discord.rs),    *)
(*   - KvCache over one key of the KvStore (src/kvcache.rs),               *)
(*   - playlist::mainfn_single and its page fetches (src/playlist.rs),     *)
(*   - the append to a bucket key by two invocations (src/discord.rs),     *)
(*   - the RefCell of the shared cooldown (src/discord.rs).                *)
(*                                                                         *)
(* Time.  The clock of the client is counted in whole seconds and is kept  *)
(* relative: an Instant the program holds is stored as the number of       *)
(* seconds that remain until it is reached (0 once it has passed), and a   *)
(* started stopwatch as the seconds elapsed since it was started.  Elapse  *)
(* moves every one of them at once.  `now < when` is `0 < remaining`.      *)
(*                                                                         *)
(* Snowflakes.  A u64 identifier is kept as the record of its two fields   *)
(* [ts |-> id >> 22, low |-> id & (2^22 - 1)], since ts * 2^22 leaves the  *)
(* range of TLC's integers for any timestamp past half a second.           *)
(* Wall-clock instants are in milliseconds counted from the Discord epoch  *)
(* (1420070400000 ms, a whole number of seconds, so that taking the whole  *)
(* seconds of an instant commutes with the change of origin).              *)
(***************************************************************************)
EXTENDS Integers, Sequences, FiniteSets, TLC

VARIABLES
    retry_after,   \* DiscordClient.retry_after: NoInstant or the seconds left until it
    call,          \* per get_json call: where it is suspended, its sleep timer, the 429 it sleeps on
    block,         \* history: seconds left of the longest Retry-After window announced by a 429
    sentEarly,     \* history: a request was sent while block > 0
    sentCooling,   \* history: a call sent while the cooldown it read on entry was still ahead
    range,         \* get_messages_range: date_range
    limit,         \* get_messages_range: limit (NoLimit for None)
    hist,          \* the remote channel history (top, step, n, per)
    messages,      \* get_messages_range: messages
    req,           \* the page request in progress: [before, n]
    rpc,           \* get_messages_range: "init", "first", "more", "done"
    rres,          \* get_messages_range: "none", "ok", "err", "panic"
    elapsed,       \* timeout_now.elapsed(), in seconds, saturating at timeout_dur
    pages,         \* history: number of page requests issued by this call of get_messages_range
    epc,           \* cron_event: "discord", "playlist", "done", "aborted" (a panic)
    mpc,           \* discord::mainfn: the await it is suspended at, or "done"
    mres,          \* discord::mainfn: "none", "ok", "err", "panic"
    chan,          \* discord::mainfn: index of ch_id in channels
    urls,          \* discord::mainfn: urls
    prev,          \* discord::mainfn: prev, the bucket's value as read
    kv,            \* the key-value store's entry for the month's bucket key
    outcome,       \* history: per channel "pending", "ok", "err", "panic"
    found,         \* history: per channel, the links its pipeline produced
    fpc,           \* fetcher::Client::fetch: "call", "sleep", "done"
    attempts,      \* history: number of times fetchcall has run
    retries,       \* backon: durations the backoff has handed out (ExponentialBackoff.attempts)
    cache,         \* the Cache entry for the URL: NoEntry or a response
    fres,          \* the result of fetch
    lastErr,       \* the error of the latest failed attempt
    lastResp,      \* the response the latest attempt worked on
    fsleep,        \* the duration of the latest sleep between attempts
    nsleeps,       \* history: number of sleeps between attempts
    netreqs,       \* history: number of requests sent to the network
    snow,          \* one use of the snowflake codec: its input, the identifier, the decoded instant
    kvc,           \* a KvCache key: the store's entry, the results of the last two gets, what came between
    pl,            \* one call of playlist::mainfn_single: the listing pages and their fetches
    app,           \* two invocations of mainfn at its append to one bucket key
    cell           \* the RefCell of the cooldown: its borrow flag, its content, the tasks using it

clientVars == <<retry_after, call, block, sentEarly, sentCooling>>
rangeVars == <<range, limit, hist, messages, req, rpc, rres, elapsed, pages>>
mainVars == <<epc, mpc, mres, chan, urls, prev, kv, outcome, found>>
fetchVars == <<fpc, attempts, retries, cache, fres, lastErr, lastResp, fsleep, nsleeps, netreqs>>
moreVars == <<snow, kvc, pl, app, cell>>
restVars == <<mainVars, fetchVars, moreVars>>
vars == <<clientVars, rangeVars, mainVars, fetchVars, moreVars>>

---------------------------------------------------------------------------
(* Bounds of the model *)

NCalls == 2          \* get_json calls that may be interleaved on one client
TickSecs == 30       \* the step of the clock, in seconds

Min(a, b) == IF a < b THEN a ELSE b
Max(a, b) == IF a < b THEN b ELSE a
Monus(a, b) == IF a < b THEN 0 ELSE a - b
Last(s) == s[Len(s)]

---------------------------------------------------------------------------
(* DiscordClient::get_json *)

NoInstant == -1              \* retry_after = None
NoHeader == -1               \* a 429 without a Retry-After header
BadHeader == -2              \* a Retry-After header that does not parse as f64
TooManyRequests == 429
DiscordDefaultRetryAfter == 1
RetryAfterCeil == 900        \* 60 * 15 seconds, the longest Retry-After that is waited for

Calls == 1..NCalls
RetryAfterHeaders == {NoHeader, BadHeader, 0, 1, 45, 1000}
OtherStatuses == {200, 204, 404, 500}

\* Response::ok(): the status is in 200..=299
ResOk(status) == 200 <= status /\ status <= 299

\* discord.rs:55-59: the Retry-After header as seconds, 1.0 when absent or unparseable
retry_after_secs(h) == IF h = NoHeader \/ h = BadHeader THEN DiscordDefaultRetryAfter ELSE h

\* discord.rs:37-39: a cooldown is set and `now < when`
MutNeverSleeps(ra) == FALSE
SleepNeeded(ra) == ra # NoInstant /\ 0 < ra

IdleCall == [pc |-> "idle", timer |-> 0, guard |-> 0, cooled |-> FALSE, d |-> 0, hdr |-> NoHeader]

\* discord.rs:36-50: entry of get_json, reading the cooldown `ra`: the call either
\* sleeps for `when - now` or sends its request at once.
EnterCall(ra) ==
    [pc |-> IF SleepNeeded(ra) THEN "cooldown" ELSE "inflight",
     timer |-> IF SleepNeeded(ra) THEN ra ELSE 0,
     guard |-> IF ra # NoInstant /\ 0 < ra THEN ra ELSE 0,
     cooled |-> ra # NoInstant /\ 0 < ra,
     d |-> 0,
     hdr |-> NoHeader]

\* the history variables at the moment call c sends a request
NoteSend(c, guard) ==
    /\ sentEarly' = (sentEarly \/ block > 0)
    /\ sentCooling' = (sentCooling \/ guard > 0)

NoteNoSend == UNCHANGED <<sentEarly, sentCooling>>

\* get_json is entered by call c (discord.rs:32-50)
Enter(c, ra) ==
    /\ call' = [call EXCEPT ![c] = EnterCall(ra)]
    /\ IF EnterCall(ra).pc = "inflight" THEN NoteSend(c, EnterCall(ra).guard) ELSE NoteNoSend

\* A task calls get_json on the client.
Start(c) ==
    /\ call[c].pc = "idle"
    /\ Enter(c, retry_after)
    /\ UNCHANGED <<retry_after, block, rangeVars, restVars>>

\* discord.rs:41-50: the cooldown sleep is over, the request is sent
WakeCooldown(c) ==
    /\ call[c].pc = "cooldown"
    /\ call[c].timer = 0
    /\ call' = [call EXCEPT ![c].pc = "inflight"]
    /\ NoteSend(c, call[c].guard)
    /\ UNCHANGED <<retry_after, block, rangeVars, restVars>>

\* discord.rs:54-66: a 429 arrives; the cooldown is set to now + duration and the
\* call sleeps for the duration
Recv429(c, h) ==
    /\ call[c].pc = "inflight"
    /\ retry_after' = retry_after_secs(h)
    /\ call' = [call EXCEPT ![c].pc = "sleep429", ![c].timer = retry_after_secs(h),
                            ![c].d = retry_after_secs(h), ![c].hdr = h]
    /\ block' = IF h >= 0 THEN Max(block, h) ELSE block
    /\ NoteNoSend
    /\ UNCHANGED <<rangeVars, restVars>>

\* discord.rs:66-67: the sleep is over, get_json calls itself
WakeRetry(c) ==
    /\ call[c].pc = "sleep429"
    /\ call[c].timer = 0
    /\ Enter(c, retry_after)
    /\ UNCHANGED <<retry_after, block, rangeVars, restVars>>

\* discord.rs:71-81: any other status clears the cooldown; the call returns Ok or Err
RecvStatus(c, status) ==
    /\ call[c].pc = "inflight"
    /\ retry_after' = NoInstant
    /\ call' = [call EXCEPT ![c] = IdleCall]
    /\ NoteNoSend
    /\ UNCHANGED <<block, rangeVars, restVars>>

\* discord.rs:46-51: send() fails, the call returns Err("Network error")
NetError(c) ==
    /\ call[c].pc = "inflight"
    /\ call' = [call EXCEPT ![c] = IdleCall]
    /\ NoteNoSend
    /\ UNCHANGED <<retry_after, block, rangeVars, restVars>>

---------------------------------------------------------------------------
(* The passage of time *)

TimeoutSecs == 300           \* timeout_dur = 60 * 5

Tick(i, dt) == IF i = NoInstant THEN NoInstant ELSE Monus(i, dt)

Elapse(dt) ==
    /\ \E c \in Calls : call[c].pc # "idle"
    /\ retry_after' = Tick(retry_after, dt)
    /\ call' = [c \in Calls |-> [call[c] EXCEPT !.timer = Monus(@, dt), !.guard = Monus(@, dt)]]
    /\ block' = Monus(block, dt)
    /\ elapsed' = IF elapsed = NoInstant THEN NoInstant ELSE Min(elapsed + dt, TimeoutSecs)
    /\ UNCHANGED <<sentEarly, sentCooling, range, limit, hist, messages, req, rpc, rres, pages, restVars>>

\* time passes by TickSecs seconds
ElapseTick == Elapse(TickSecs)

---------------------------------------------------------------------------
(* Specification of the client alone: NCalls tasks share one DiscordClient *)

NoRange == [sk |-> "Unbounded", s |-> 0, ek |-> "Unbounded", e |-> 0]

RangeIdle ==
    /\ range = NoRange
    /\ limit = -1
    /\ hist = [top |-> 0, step |-> 1, n |-> 0]
    /\ messages = <<>>
    /\ req = [has |-> FALSE, before |-> [ts |-> -1, low |-> 0], n |-> 0]
    /\ rpc = "off"
    /\ rres = "none"
    /\ elapsed = NoInstant
    /\ pages = 0

NoEntry == [status |-> 0, ra |-> -1]
NoError == [kind |-> "none", status |-> 0, ra |-> -1]

MainIdle ==
    /\ epc = "off"
    /\ mpc = "off"
    /\ mres = "none"
    /\ chan = 0
    /\ urls = <<>>
    /\ prev = <<>>
    /\ kv = [present |-> FALSE, text |-> <<>>]
    /\ outcome = <<>>
    /\ found = <<>>

FetchIdle ==
    /\ fpc = "off"
    /\ attempts = 0
    /\ retries = 0
    /\ cache = NoEntry
    /\ fres = NoError
    /\ lastErr = NoError
    /\ lastResp = NoEntry
    /\ fsleep = 0
    /\ nsleeps = 0
    /\ netreqs = 0

NoWide == [l2 |-> 0, l1 |-> 0, l0 |-> 0]

SnowIdle ==
    snow = [pc |-> "off", t |-> NoWide, w |-> 0, q |-> 0,
            enc |-> [ok |-> FALSE, s |-> <<>>], dec |-> [ok |-> FALSE, ms |-> NoWide]]

NoResult == [kind |-> "none", ok |-> FALSE, some |-> FALSE, v |-> ""]
Absent == [present |-> FALSE, text |-> "", exp |-> FALSE]
Quiet == [set |-> FALSE, lapsed |-> FALSE, foreign |-> FALSE]

KvcIdle ==
    kvc = [pc |-> "off", entry |-> Absent, n |-> 0, last |-> NoResult, prevr |-> NoResult,
           between |-> Quiet, since |-> Quiet]

\* playlist::mainfn_single is not running
PlIdle == pl = [pc |-> "off", maxpage |-> 0, st |-> <<>>, res |-> "none"]

\* no invocation is at the append
AppIdle == app = [kv |-> [present |-> FALSE, text |-> <<>>], inv |-> <<>>, raced |-> FALSE]

\* the client's cell is not in use
CellIdle == cell = [flag |-> 0, when |-> 0, task |-> <<>>]

MoreIdle == SnowIdle /\ KvcIdle /\ PlIdle /\ AppIdle /\ CellIdle

ClientInit ==
    /\ retry_after = NoInstant
    /\ call = [c \in Calls |-> IdleCall]
    /\ block = 0
    /\ sentEarly = FALSE
    /\ sentCooling = FALSE

InitClient == ClientInit /\ RangeIdle /\ MainIdle /\ FetchIdle /\ MoreIdle

NextClient ==
    \/ \E c \in Calls : Start(c)
    \/ \E c \in Calls : WakeCooldown(c)
    \/ \E c \in Calls, h \in RetryAfterHeaders : Recv429(c, h)
    \/ \E c \in Calls : WakeRetry(c)
    \/ \E c \in Calls, s \in OtherStatuses : RecvStatus(c, s)
    \/ \E c \in Calls : NetError(c)
    \/ ElapseTick

SpecClient == InitClient /\ [][NextClient]_vars

---------------------------------------------------------------------------
(* Claims about the client *)

\* C1: after a 429 with Retry-After d, no request goes out through the same client
\* earlier than d seconds after the 429 was received, whichever call sends it.
C1_NoSendBeforeRetryAfter == ~sentEarly

\* C6: a 429 whose Retry-After exceeds 15 minutes aborts the call: get_json never
\* sleeps for such a duration (and so never re-sends after it).
C6_LongRetryAfterAborts ==
    \A c \in Calls : call[c].pc = "sleep429" => call[c].d <= RetryAfterCeil

\* C7: a call that finds the cooldown set and in the future when it starts sends no
\* request before that instant has elapsed.
C7_NoSendBeforeCooldown == ~sentCooling

\* a call found the cooldown ahead of it, slept, and has now sent its request
C7_Witness == \E c \in Calls : call[c].pc = "inflight" /\ call[c].cooled

\* C32: the shared cooldown is set only by a 429 response and is cleared only by a
\* successful (2xx) response: a response with a non-2xx status other than 429
\* leaves the cooldown as it is.
C32_CooldownFrame ==
    [][/\ (retry_after = NoInstant /\ retry_after' # NoInstant)
          => \E c \in Calls : call[c].pc = "inflight" /\ call'[c].pc = "sleep429"
       /\ (\E c \in Calls, s \in OtherStatuses : ~ResOk(s) /\ RecvStatus(c, s))
          => retry_after' = retry_after]_vars

---------------------------------------------------------------------------
(* Snowflakes and message timestamps (mod utils) *)

DISCORD_EPOCH == 0           \* the origin of the model's milliseconds (see the header)
MsPerSec == 1000
MaxWorkerId == 1023          \* 0x3FF
MaxSequence == 4095          \* 0xFFF
SeqSpan == 4096              \* 1 << 12

NoId == [ts |-> -1, low |-> 0]

\* u64 order on identifiers
IdLess(a, b) == a.ts < b.ts \/ (a.ts = b.ts /\ a.low < b.low)

\* utils::snowflake_to_unix_ms: (snowflake >> 22) + DISCORD_EPOCH
snowflake_to_unix_ms(id) == id.ts + DISCORD_EPOCH

\* utils::snowflake_to_utc_datetime: the instant of the whole second ms / 1000,
\* given here in milliseconds
snowflake_to_utc_datetime(id) == (snowflake_to_unix_ms(id) \div MsPerSec) * MsPerSec

\* Message::timestamp
timestamp(m) == snowflake_to_utc_datetime(m)

\* utils::unix_ms_to_snowflake; the 42-bit check on the offset cannot fail for
\* the instants of this model
unix_ms_to_snowflake(timestamp_ms, worker_id, sequence) ==
    IF timestamp_ms < DISCORD_EPOCH \/ worker_id > MaxWorkerId \/ sequence > MaxSequence
    THEN [ok |-> FALSE, id |-> NoId]
    ELSE [ok |-> TRUE,
          id |-> [ts |-> timestamp_ms - DISCORD_EPOCH, low |-> worker_id * SeqSpan + sequence]]

\* UtcDateTime::unix_timestamp: the whole seconds of an instant
unix_timestamp(t) == t \div MsPerSec

\* RangeBounds::contains for the window r and the instant t
contains(r, t) ==
    /\ CASE r.sk = "Included" -> r.s <= t
         [] r.sk = "Excluded" -> r.s < t
         [] OTHER -> TRUE
    /\ CASE r.ek = "Included" -> t <= r.e
         [] r.ek = "Excluded" -> t < r.e
         [] OTHER -> TRUE

---------------------------------------------------------------------------
(* The snowflake codec at its full width (mod utils)                         *)
(*                                                                         *)
(* The definitions above serve the paginator, whose instants lie close to  *)
(* the epoch.  Here the numbers keep the width they have in the program: a *)
(* non-negative i64 is three limbs of 21 bits,                             *)
(*     [l2, l1, l0]  =  l2 * 2^42 + l1 * 2^21 + l0,                        *)
(* a u64 identifier is [h, m, low] = (h * 2^21 + m) * 2^22 + low with h    *)
(* and m of 21 bits and low of 22, and a String of digits is the sequence  *)
(* of its digits.                                                          *)

Limb == 2^21
LowSpan == 2^22              \* 1 << 22

\* DISCORD_EPOCH = 1420070400000 = 677142 * 2^21 + 700416
DISCORD_EPOCH_MS == [l2 |-> 0, l1 |-> 677142, l0 |-> 700416]

Zero64 == [h |-> 0, m |-> 0, low |-> 0]

\* a < b on i64 values
WLess(a, b) ==
    \/ a.l2 < b.l2
    \/ a.l2 = b.l2 /\ a.l1 < b.l1
    \/ a.l2 = b.l2 /\ a.l1 = b.l1 /\ a.l0 < b.l0

\* a - b, for b <= a
WSub(a, b) ==
    LET d0 == a.l0 - b.l0
        b0 == IF d0 < 0 THEN 1 ELSE 0
        d1 == a.l1 - b.l1 - b0
        b1 == IF d1 < 0 THEN 1 ELSE 0
    IN [l2 |-> a.l2 - b.l2 - b1, l1 |-> d1 + b1 * Limb, l0 |-> d0 + b0 * Limb]

\* a + b, for a sum below 2^63
WAdd(a, b) ==
    LET s0 == a.l0 + b.l0
        s1 == a.l1 + b.l1 + s0 \div Limb
    IN [l2 |-> a.l2 + b.l2 + s1 \div Limb, l1 |-> s1 % Limb, l0 |-> s0 % Limb]

\* u divided by ten: quotient and remainder
DivTen(u) ==
    LET mm == (u.h % 10) * Limb + u.m
        lw == (mm % 10) * LowSpan + u.low
    IN [q |-> [h |-> u.h \div 10, m |-> mm \div 10, low |-> lw \div 10], r |-> lw % 10]

RECURSIVE Digits(_)
Digits(u) == IF u = Zero64 THEN <<>> ELSE Append(Digits(DivTen(u).q), DivTen(u).r)

\* u64::to_string
to_string(u) == IF u = Zero64 THEN <<0>> ELSE Digits(u)

\* u * 10 + d, failing when it leaves 64 bits
MulTenAdd(u, d) ==
    LET lw == u.low * 10 + d
        mm == u.m * 10 + lw \div LowSpan
        hh == u.h * 10 + mm \div Limb
    IN [ok |-> hh < Limb, u |-> [h |-> hh % Limb, m |-> mm % Limb, low |-> lw % LowSpan]]

RECURSIVE ParseDigits(_, _)
ParseDigits(s, acc) ==
    IF s = <<>> THEN [ok |-> TRUE, u |-> acc]
    ELSE IF MulTenAdd(acc, Head(s)).ok
         THEN ParseDigits(Tail(s), MulTenAdd(acc, Head(s)).u)
         ELSE [ok |-> FALSE, u |-> Zero64]

\* str::parse::<u64> on a string of digits
parse_u64(s) == IF s = <<>> THEN [ok |-> FALSE, u |-> Zero64] ELSE ParseDigits(s, Zero64)

\* utils::unix_ms_to_snowflake (discord.rs:313-338)
unix_ms_to_snowflake_wide(timestamp_ms, worker_id, sequence) ==
    IF \/ WLess(timestamp_ms, DISCORD_EPOCH_MS)
       \/ worker_id > MaxWorkerId
       \/ sequence > MaxSequence
    THEN [ok |-> FALSE, s |-> <<>>]
    ELSE LET offset == WSub(timestamp_ms, DISCORD_EPOCH_MS)
         IN IF offset.l2 # 0
            THEN [ok |-> FALSE, s |-> <<>>]
            ELSE [ok |-> TRUE,
                  s |-> to_string([h |-> offset.l1, m |-> offset.l0,
                                   low |-> worker_id * SeqSpan + sequence])]

\* utils::snowflake_to_unix_ms (discord.rs:293-299)
MutForgetsEpoch(s) ==
    [ok |-> parse_u64(s).ok, ms |-> [l2 |-> 0, l1 |-> parse_u64(s).u.h, l0 |-> parse_u64(s).u.m]]
snowflake_to_unix_ms_wide(s) ==
    IF ~parse_u64(s).ok
    THEN [ok |-> FALSE, ms |-> NoWide]
    ELSE [ok |-> TRUE,
          ms |-> WAdd([l2 |-> 0, l1 |-> parse_u64(s).u.h, l0 |-> parse_u64(s).u.m],
                      DISCORD_EPOCH_MS)]

\* the codec is given the triple (snow.t, snow.w, snow.q)
SnowEncode ==
    /\ snow.pc = "in"
    /\ snow' = [snow EXCEPT !.pc = "encoded",
                            !.enc = unix_ms_to_snowflake_wide(snow.t, snow.w, snow.q)]
    /\ UNCHANGED <<clientVars, rangeVars, mainVars, fetchVars, kvc, pl, app, cell>>

\* the identifier it produced is decoded
SnowDecode ==
    /\ snow.pc = "encoded"
    /\ snow.enc.ok
    /\ snow' = [snow EXCEPT !.pc = "decoded", !.dec = snowflake_to_unix_ms_wide(snow.enc.s)]
    /\ UNCHANGED <<clientVars, rangeVars, mainVars, fetchVars, kvc, pl, app, cell>>

\* milliseconds after the epoch, and instants before it
SnowOffsets ==
    {[l2 |-> 0, l1 |-> 0, l0 |-> 0], [l2 |-> 0, l1 |-> 0, l0 |-> 1],
     [l2 |-> 0, l1 |-> 0, l0 |-> Limb - 1], [l2 |-> 0, l1 |-> 1, l0 |-> 0],
     [l2 |-> 0, l1 |-> 123456, l0 |-> 789], [l2 |-> 0, l1 |-> Limb - 1, l0 |-> Limb - 1],
     [l2 |-> 1, l1 |-> 0, l0 |-> 0], [l2 |-> 1, l1 |-> 0, l0 |-> 5],
     [l2 |-> 1024, l1 |-> 7, l0 |-> 7]}

SnowTimes ==
    {WAdd(d, DISCORD_EPOCH_MS) : d \in SnowOffsets}
        \cup {NoWide, WSub(DISCORD_EPOCH_MS, [l2 |-> 0, l1 |-> 0, l0 |-> 1])}

InitSnow ==
    /\ ClientInit
    /\ RangeIdle
    /\ MainIdle
    /\ FetchIdle
    /\ KvcIdle
    /\ PlIdle
    /\ AppIdle
    /\ CellIdle
    /\ snow \in [pc : {"in"}, t : SnowTimes, w : {0, 1, 1023, 1024}, q : {0, 1, 4095, 4096},
                 enc : {[ok |-> FALSE, s |-> <<>>]}, dec : {[ok |-> FALSE, ms |-> NoWide]}]

NextSnow == SnowEncode \/ SnowDecode

SpecSnow == InitSnow /\ [][NextSnow]_vars

---------------------------------------------------------------------------
(* Claims about the snowflake codec *)

\* the fields of an identifier: bits 12..21 and bits 0..11
PartitionOf(s) == (parse_u64(s).u.low \div SeqSpan) % (MaxWorkerId + 1)
SequenceOf(s) == parse_u64(s).u.low % SeqSpan

\* the triple is one the claim speaks of
ValidTriple ==
    /\ ~WLess(snow.t, DISCORD_EPOCH_MS)
    /\ snow.w <= MaxWorkerId
    /\ snow.q <= MaxSequence

\* encoding succeeded, and what was decoded is the triple that was encoded
RoundTrips ==
    /\ snow.enc.ok
    /\ snow.pc = "decoded" =>
          /\ snow.dec.ok /\ snow.dec.ms = snow.t
          /\ PartitionOf(snow.enc.s) = snow.w
          /\ SequenceOf(snow.enc.s) = snow.q

\* C15 as stated: for every instant at or after the epoch, every partition id up to
\* 1023 and every sequence up to 4095, encoding succeeds and decoding gives the
\* same triple.
C15_RoundTripFromEpoch == (snow.pc # "in" /\ ValidTriple) => RoundTrips

\* C15: the same for the instants less than 2^42 ms after the epoch.
C15_RoundTrip42 ==
    (snow.pc # "in" /\ ValidTriple /\ WSub(snow.t, DISCORD_EPOCH_MS).l2 = 0) => RoundTrips

\* the largest identifier, 2^64 - 1, went through the codec
C15_Witness ==
    /\ snow.pc = "decoded"
    /\ snow.t = WAdd([l2 |-> 0, l1 |-> Limb - 1, l0 |-> Limb - 1], DISCORD_EPOCH_MS)
    /\ snow.w = MaxWorkerId /\ snow.q = MaxSequence
    /\ Len(snow.enc.s) = 20

---------------------------------------------------------------------------
(* The remote list endpoint: a channel history, newest first *)

\* message k (1 = newest) of the history h: evenly spread, `step` ms apart
HistMsg(h, k) == [ts |-> h.top - (k - 1) * h.step, low |-> (h.n - k) % 3]

History(h) == [k \in 1..h.n |-> HistMsg(h, k)]

Take(s, n) == SubSeq(s, 1, Min(n, Len(s)))

\* GET /channels/{id}/messages?[before=..&]limit=n: the n newest messages, or the
\* n newest among those whose id is below `before`
RemotePage(h, r) ==
    Take(SelectSeq(History(h), LAMBDA m : ~r.has \/ IdLess(m, r.before)), r.n)

---------------------------------------------------------------------------
(* DiscordClient::get_messages_range *)

PageSize == 100
NoLimit == -1                \* limit = None

\* slice::partition_point (binary_search_by over the predicate), on the 0-based
\* slice msgs[base .. base + size)
RECURSIVE PPSearch(_, _, _, _)
PPSearch(msgs, r, base, size) ==
    IF size > 1
    THEN LET half == size \div 2
             mid == base + half
         IN PPSearch(msgs, r, IF contains(r, timestamp(msgs[mid + 1])) THEN mid ELSE base,
                     size - half)
    ELSE base + (IF contains(r, timestamp(msgs[base + 1])) THEN 1 ELSE 0)

partition_point(msgs, r) == IF Len(msgs) = 0 THEN 0 ELSE PPSearch(msgs, r, 0, Len(msgs))

\* the closure filter_msg (discord.rs:133-151)
MutKeepsWholeBatch(msgs, r) == msgs
filter_msg(msgs, r) ==
    LET split_idx == partition_point(msgs, r)
    IN IF split_idx < PageSize THEN SubSeq(msgs, 1, split_idx) ELSE msgs

\* limit.unwrap_or(100).min(100) as u8 (discord.rs:161, 166)
FirstCap == Min(IF limit = NoLimit THEN PageSize ELSE limit, PageSize)

\* the condition of the draining loop (discord.rs:192-196) for the accumulated
\* msgs and the stopwatch reading el
MutLoopIgnoresTimeout(msgs, el) ==
    /\ limit = NoLimit \/ Len(msgs) <= limit
    /\ Len(msgs) > 0
    /\ contains(range, timestamp(Last(msgs)))
LoopCond(msgs, el) ==
    /\ limit = NoLimit \/ Len(msgs) <= limit
    /\ Len(msgs) > 0
    /\ contains(range, timestamp(Last(msgs)))
    /\ el < TimeoutSecs

\* discord.rs:198-202
MutCapIgnoresAccumulated(msgs) == IF limit # NoLimit THEN Min(limit, PageSize) ELSE PageSize
Cap(msgs) == IF limit # NoLimit THEN Min(limit - Len(msgs), PageSize) ELSE PageSize

Finish(res, msgs) ==
    /\ rpc' = "done"
    /\ rres' = res
    /\ messages' = msgs

\* the paginator's own get_json call is call 1
Pager == 1

\* get_messages_before / get_messages: panic on a zero limit, else get_json
Request(before, has, n, msgs, ra) ==
    IF n = 0
    THEN /\ Finish("panic", msgs)
         /\ call' = [call EXCEPT ![Pager] = IdleCall]
         /\ NoteNoSend
         /\ UNCHANGED <<req, pages>>
    ELSE /\ req' = [has |-> has, before |-> before, n |-> n]
         /\ pages' = pages + 1
         /\ messages' = msgs
         /\ rres' = "none"
         /\ Enter(Pager, ra)

\* discord.rs:153-169: the first request
RangeStart ==
    /\ rpc = "init"
    /\ call[Pager].pc = "idle"
    /\ LET sf == unix_ms_to_snowflake(unix_timestamp(range.e) * MsPerSec, 0, 0)
       IN IF range.ek # "Unbounded" /\ ~sf.ok
          THEN /\ Finish("err", <<>>)
               /\ UNCHANGED <<call, req, pages, sentEarly, sentCooling>>
          ELSE /\ Request(sf.id, range.ek # "Unbounded", FirstCap, <<>>, retry_after)
               /\ IF FirstCap = 0 THEN TRUE ELSE rpc' = "first"
    /\ UNCHANGED <<retry_after, block, range, limit, hist, elapsed, restVars>>

\* discord.rs:192-216: the loop condition, then the next request or the return
Loop(msgs, el) ==
    IF LoopCond(msgs, el)
    THEN /\ Request(Last(msgs), TRUE, Cap(msgs), msgs, NoInstant)
         /\ IF Cap(msgs) = 0 THEN TRUE ELSE rpc' = "more"
    ELSE /\ Finish("ok", msgs)
         /\ call' = [call EXCEPT ![Pager] = IdleCall]
         /\ NoteNoSend
         /\ UNCHANGED <<req, pages>>

\* A 2xx page arrives: get_json clears the cooldown and returns it (discord.rs:71-81),
\* and get_messages_range runs on to its next await or to its return.
RangeRecvPage ==
    /\ rpc \in {"first", "more"}
    /\ call[Pager].pc = "inflight"
    /\ retry_after' = NoInstant
    /\ LET batch == filter_msg(RemotePage(hist, req), range)
       IN IF rpc = "first"
          THEN IF Len(batch) < PageSize
               THEN /\ Finish("ok", batch)
                    /\ call' = [call EXCEPT ![Pager] = IdleCall]
                    /\ NoteNoSend
                    /\ UNCHANGED <<req, pages, elapsed>>
               ELSE /\ elapsed' = 0
                    /\ Loop(batch, 0)
          ELSE /\ UNCHANGED elapsed
               /\ IF batch = <<>>
                  THEN /\ Finish("ok", messages)
                       /\ call' = [call EXCEPT ![Pager] = IdleCall]
                       /\ NoteNoSend
                       /\ UNCHANGED <<req, pages>>
                  ELSE Loop(messages \o batch, elapsed)
    /\ UNCHANGED <<block, range, limit, hist, restVars>>

\* A non-2xx status other than 429: get_json clears the cooldown and returns Err,
\* which `?` hands to the caller of get_messages_range (discord.rs:73-78, 163, 209)
RangeRecvErr(status) ==
    /\ rpc \in {"first", "more"}
    /\ call[Pager].pc = "inflight"
    /\ ~ResOk(status)
    /\ retry_after' = NoInstant
    /\ call' = [call EXCEPT ![Pager] = IdleCall]
    /\ NoteNoSend
    /\ rpc' = "done"
    /\ rres' = "err"
    /\ UNCHANGED <<block, range, limit, hist, messages, req, elapsed, pages, restVars>>

\* send() fails (discord.rs:51)
RangeNetError ==
    /\ rpc \in {"first", "more"}
    /\ call[Pager].pc = "inflight"
    /\ call' = [call EXCEPT ![Pager] = IdleCall]
    /\ NoteNoSend
    /\ rpc' = "done"
    /\ rres' = "err"
    /\ UNCHANGED <<retry_after, block, range, limit, hist, messages, req, elapsed, pages, restVars>>

---------------------------------------------------------------------------
(* Specification of one call of get_messages_range *)

MaxHist == 420       \* messages in the remote history

Kinds == {"Included", "Excluded", "Unbounded"}
Windows == [sk : Kinds, s : {2000, 2500}, ek : Kinds, e : {4000, 4500}]
Limits == {NoLimit, 0, 40, 100, 150}
Hists == [top : {5990}, step : {10, 17, 500}, n : {12, MaxHist}]

InitRange ==
    /\ ClientInit
    /\ range \in Windows
    /\ limit \in Limits
    /\ hist \in Hists
    /\ messages = <<>>
    /\ req = [has |-> FALSE, before |-> NoId, n |-> 0]
    /\ rpc = "init"
    /\ rres = "none"
    /\ elapsed = NoInstant
    /\ pages = 0
    /\ MainIdle
    /\ FetchIdle
    /\ MoreIdle

NextRange ==
    \/ RangeStart
    \/ RangeNetError
    \/ \E s \in OtherStatuses : RangeRecvErr(s)
    \/ \E h \in RetryAfterHeaders : Recv429(Pager, h)
    \/ WakeRetry(Pager)
    \/ ElapseTick
    \/ RangeRecvPage

SpecRange == InitRange /\ [][NextRange]_vars

---------------------------------------------------------------------------
(* Claims about get_messages_range *)

\* the items of the history whose timestamp lies in the window, newest first
InWindow(h, r) == SelectSeq(History(h), LAMBDA m : contains(r, timestamp(m)))

\* the history has items inside the window, items older than it and items newer
ExtendsBeyond(h, r) ==
    /\ InWindow(h, r) # <<>>
    /\ \E k \in 1..h.n : timestamp(HistMsg(h, k)) < r.s
    /\ \E k \in 1..h.n : timestamp(HistMsg(h, k)) >= r.e

\* C2: for a window [T0, T1), no limit and a history that extends inside and beyond
\* the window, a call that returns before the safety timeout has run out returns
\* exactly the items with a timestamp in [T0, T1), newest first.
C2_ExactWindow ==
    (/\ rpc = "done" /\ rres = "ok"
     /\ range.sk = "Included" /\ range.ek = "Excluded"
     /\ limit = NoLimit
     /\ ExtendsBeyond(hist, range)
     /\ elapsed # TimeoutSecs)
    => messages = InWindow(hist, range)

\* the call is never left suspended for ever (a response arrives or a sleep ends
\* whenever one can), and time does not stand still
FairRange == WF_vars(NextRange) /\ WF_vars(ElapseTick)

FairSpecRange == InitRange /\ [][NextRange]_vars /\ FairRange

\* C3: whatever the window, the limit and the remote's responses, a call of
\* get_messages_range eventually returns.
C3_EventuallyReturns == <>(rpc = "done")

\* C8: every item of the returned sequence has its timestamp inside the window, and
\* the identifiers are strictly decreasing.
C8_InWindowNewestFirst ==
    (rpc = "done" /\ rres = "ok")
    => \A i \in 1..Len(messages) :
           /\ contains(range, timestamp(messages[i]))
           /\ i > 1 => IdLess(messages[i], messages[i - 1])

\* a return of more than one page, cut where the history leaves the window
C8_Witness ==
    /\ rpc = "done" /\ rres = "ok"
    /\ Len(messages) > PageSize
    /\ \E k \in 1..hist.n :
           /\ IdLess(HistMsg(hist, k), Last(messages))
           /\ ~contains(range, timestamp(HistMsg(hist, k)))

\* C13: a page request that fails in the draining loop loses no item fetched before
\* it: a call that returns Err (which hands the caller no item) had accumulated none.
C13_FetchedItemsDelivered ==
    (rpc = "done" /\ rres = "err") => messages = <<>>

\* the item budget left to a call that has accumulated msgs: unlimited under None
RemainingBudget(msgs) == IF limit = NoLimit THEN PageSize ELSE limit - Len(msgs)

\* C21: for a limit of None or Some(L) with L >= 1 and every remote history, every
\* page request (the first batch and every draining iteration) carries a page size
\* N with 1 <= N <= 100, N = min(remaining item budget, 100); the engine never asks
\* for a page of size 0.
C21_PageSizeInRange ==
    (limit = NoLimit \/ limit >= 1)
    => /\ rres # "panic"
       /\ rpc \in {"first", "more"}
          => /\ 1 <= req.n /\ req.n <= PageSize
             /\ req.n = Min(RemainingBudget(messages), PageSize)

\* a step in which get_messages_range receives a page (a 2xx response with a batch)
PageReceived ==
    /\ rpc \in {"first", "more"}
    /\ call[Pager].pc = "inflight"
    /\ pages' # pages \/ (rpc' = "done" /\ rres' \in {"ok", "panic"})

\* C22: a received batch (first or draining) whose count of leading in-window items
\* is below 100 is the final one: it is truncated to its in-window prefix, the
\* call returns, and no further page request is issued.
C22_UndersizedBatchIsFinal ==
    [][(PageReceived /\ partition_point(RemotePage(hist, req), range) < PageSize)
       => /\ rpc' = "done" /\ rres' = "ok"
          /\ pages' = pages
          /\ messages' = messages \o SubSeq(RemotePage(hist, req), 1,
                                            partition_point(RemotePage(hist, req), range))]_vars

\* the first request of the call is in flight for the first time: the cooldown has
\* never been set, so nothing has been sent again yet
FirstSend ==
    /\ rpc = "first" /\ pages = 1
    /\ call[Pager].pc = "inflight"
    /\ retry_after = NoInstant

\* C23: a request of get_json that fails transiently (network error, or a non-2xx
\* status other than 429) is retried by the client; the failure reaches the
\* pagination engine only after the retries are exhausted, so never from the very
\* first send of a request.
C23_TransientFailureRetried ==
    [][FirstSend => ~(rpc' = "done" /\ rres' = "err")]_vars

\* the items of the history whose timestamp is exactly the window's upper end
AtUpperEnd(h, r) == {k \in 1..h.n : timestamp(HistMsg(h, k)) = r.e}

\* C28: the bound kind of the window's upper end decides the boundary item: with an
\* inclusive upper bound T1 an item whose timestamp equals T1 is part of the output
\* (the lower bound admitting it), with an exclusive one it is not.
C28_BoundKindDecidesBoundaryItem ==
    (rpc = "done" /\ rres = "ok" /\ limit = NoLimit /\ elapsed # TimeoutSecs)
    => \A k \in AtUpperEnd(hist, range) :
           /\ (range.ek = "Included" /\ contains(range, range.e))
              => \E i \in 1..Len(messages) : messages[i] = HistMsg(hist, k)
           /\ range.ek = "Excluded"
              => \A i \in 1..Len(messages) : messages[i] # HistMsg(hist, k)

\* C30: if the 5-minute safety timeout has elapsed when the draining loop re-checks
\* its condition (a page has just been received and appended), the engine issues no
\* further page request and returns Ok with exactly the items accumulated so far.
C30_TimeoutReturnsAccumulated ==
    [][(PageReceived /\ rpc = "more" /\ elapsed = TimeoutSecs)
       => /\ rpc' = "done" /\ rres' = "ok"
          /\ pages' = pages
          /\ messages' = messages \o filter_msg(RemotePage(hist, req), range)]_vars

\* the call returned Ok at the cutoff although the window goes on below its last item
C30_Witness ==
    /\ rpc = "done" /\ rres = "ok"
    /\ elapsed = TimeoutSecs
    /\ limit = NoLimit
    /\ Len(messages) > PageSize
    /\ \E k \in 1..hist.n :
           /\ IdLess(HistMsg(hist, k), Last(messages))
           /\ contains(range, timestamp(HistMsg(hist, k)))

\* the first request of the call is in flight again: the cooldown is set, which
\* only a 429 answer to this very request can have done
Resent ==
    /\ rpc = "first" /\ pages = 1
    /\ call[Pager].pc = "inflight"
    /\ retry_after # NoInstant

\* C31: after a 429 get_json waits and retries once: a request that was sent again
\* and is answered 429 again is not waited on and sent a third time; the call
\* returns a failure, so that a remote that keeps answering 429 cannot keep it
\* retrying without bound.
C31_RetriesOnce ==
    [][Resent => call'[Pager].pc # "sleep429"]_vars

\* C33: under a limit Some(L) the sequence accumulated and returned by
\* get_messages_range never holds more than L items, after the first batch and
\* after every iteration of the draining loop.
C33_NeverMoreThanLimit ==
    limit # NoLimit => Len(messages) <= limit

\* two pages were accumulated and fill the limit exactly
C33_Witness ==
    /\ limit # NoLimit /\ limit > PageSize
    /\ pages = 2
    /\ Len(messages) = limit

---------------------------------------------------------------------------
(* discord::mainfn and cron_event *)

NChannels == 9       \* entries of DISCORD_CHANNEL_IDS

Channels == 1..NChannels

\* what linkify finds in one channel's messages, in message order; "cdn.x" stands
\* for a link that EXCLUDED_PATTERNS matches
LinkLists == {<<>>, <<"b", "cdn.x">>, <<"a", "a">>}

\* excluder.is_match
is_match(link) == link = "cdn.x"

\* discord.rs:451-454
Filtered(links) == SelectSeq(links, LAMBDA x : ~is_match(x))

\* urls.join("\n"), a text being the sequence of its links and "\n" separators
RECURSIVE join(_)
join(ls) ==
    IF Len(ls) = 0 THEN <<>>
    ELSE IF Len(ls) = 1 THEN ls
    ELSE <<Head(ls), "\n">> \o join(Tail(ls))

\* discord.rs:396: the for loop has reached channel c (the channels are taken one
\* after the other, each pipeline awaited before the next one starts)
MutAllStarted(c) == TRUE
Started(c) == c <= chan

\* the channels whose pipeline has started and has not ended
InProgress == {c \in Channels : Started(c) /\ outcome[c] = "pending"}

\* mainfn returns Err through `?`, or panics through expect
MainFail(how) ==
    /\ mpc' = "done"
    /\ mres' = how
    /\ outcome' = [outcome EXCEPT ![chan] = how]
    /\ epc' = IF how = "panic" THEN "aborted" ELSE epc
    /\ UNCHANGED <<chan, urls, prev, kv, found>>

\* discord.rs:397-401: client.get_channel(ch_id).await?, then guild_id.expect(..)
MainGetChannel(r) ==
    /\ mpc = "get_channel"
    /\ CASE r = "err" -> MainFail("err")
         [] r = "no_guild" -> MainFail("panic")
         [] OTHER -> /\ mpc' = "get_guild"
                     /\ UNCHANGED <<epc, mres, chan, urls, prev, kv, outcome, found>>
    /\ UNCHANGED <<clientVars, rangeVars, fetchVars, moreVars>>

\* discord.rs:402: client.get_guild(&srv_id).await?
MainGetGuild(r) ==
    /\ mpc = "get_guild"
    /\ IF r = "err"
       THEN MainFail("err")
       ELSE /\ mpc' = "get_range"
            /\ UNCHANGED <<epc, mres, chan, urls, prev, kv, outcome, found>>
    /\ UNCHANGED <<clientVars, rangeVars, fetchVars, moreVars>>

\* discord.rs:404-465: get_messages_range(..).await?, the links of the channel are
\* appended to urls; after the last channel an empty urls ends the run
MutAlwaysPersists(r, links) ==
    /\ mpc = "get_range"
    /\ IF r = "err"
       THEN MainFail("err")
       ELSE /\ urls' = urls \o Filtered(links)
            /\ outcome' = [outcome EXCEPT ![chan] = "ok"]
            /\ found' = [found EXCEPT ![chan] = Filtered(links)]
            /\ chan' = IF chan < NChannels THEN chan + 1 ELSE chan
            /\ mpc' = IF chan < NChannels THEN "get_channel" ELSE "kv_get"
            /\ UNCHANGED <<epc, mres, prev, kv>>
    /\ UNCHANGED <<clientVars, rangeVars, fetchVars, moreVars>>
MainGetRange(r, links) ==
    /\ mpc = "get_range"
    /\ IF r = "err"
       THEN MainFail("err")
       ELSE LET all == urls \o Filtered(links)
            IN /\ urls' = all
               /\ outcome' = [outcome EXCEPT ![chan] = "ok"]
               /\ found' = [found EXCEPT ![chan] = Filtered(links)]
               /\ IF chan < NChannels
                  THEN /\ chan' = chan + 1
                       /\ mpc' = "get_channel"
                       /\ mres' = mres
                  ELSE /\ chan' = chan
                       /\ mpc' = IF all = <<>> THEN "done" ELSE "kv_get"
                       /\ mres' = IF all = <<>> THEN "ok" ELSE mres
               /\ UNCHANGED <<epc, prev, kv>>
    /\ UNCHANGED <<clientVars, rangeVars, fetchVars, moreVars>>

\* discord.rs:490-495: kv.get(&kvname).text().await.expect(..).unwrap_or("")
MainKvGet(ok) ==
    /\ mpc = "kv_get"
    /\ IF ok
       THEN /\ prev' = IF kv.present THEN kv.text ELSE <<>>
            /\ mpc' = "kv_put"
            /\ UNCHANGED <<epc, mres>>
       ELSE /\ mpc' = "done"
            /\ mres' = "panic"
            /\ epc' = "aborted"
            /\ prev' = prev
    /\ UNCHANGED <<chan, urls, kv, outcome, found>>
    /\ UNCHANGED <<clientVars, rangeVars, fetchVars, moreVars>>

\* discord.rs:496-507: newval = prev + "\n" + kvvalue; kv.put(..).execute().await.expect(..)
MutPutOverwrites(ok) ==
    /\ mpc = "kv_put"
    /\ mpc' = "done"
    /\ kv' = IF ok THEN [present |-> TRUE, text |-> join(urls)] ELSE kv
    /\ mres' = IF ok THEN "ok" ELSE "panic"
    /\ epc' = IF ok THEN epc ELSE "aborted"
    /\ UNCHANGED <<chan, urls, prev, outcome, found>>
    /\ UNCHANGED <<clientVars, rangeVars, fetchVars, moreVars>>
MainKvPut(ok) ==
    /\ mpc = "kv_put"
    /\ mpc' = "done"
    /\ IF ok
       THEN /\ kv' = [present |-> TRUE, text |-> prev \o <<"\n">> \o join(urls)]
            /\ mres' = "ok"
            /\ epc' = epc
       ELSE /\ kv' = kv
            /\ mres' = "panic"
            /\ epc' = "aborted"
    /\ UNCHANGED <<chan, urls, prev, outcome, found>>
    /\ UNCHANGED <<clientVars, rangeVars, fetchVars, moreVars>>

\* lib.rs:169-175: the result of discord::mainfn is logged, then playlist::mainfn runs
MutErrSkipsPlaylist ==
    /\ epc = "discord"
    /\ mpc = "done"
    /\ epc' = IF mres = "err" THEN "done" ELSE "playlist"
    /\ UNCHANGED <<mpc, mres, chan, urls, prev, kv, outcome, found>>
    /\ UNCHANGED <<clientVars, rangeVars, fetchVars, moreVars>>
CronAfterDiscord ==
    /\ epc = "discord"
    /\ mpc = "done"
    /\ epc' = "playlist"
    /\ UNCHANGED <<mpc, mres, chan, urls, prev, kv, outcome, found>>
    /\ UNCHANGED <<clientVars, rangeVars, fetchVars, moreVars>>

\* lib.rs:173-177: playlist::mainfn returns (its result is logged)
CronAfterPlaylist ==
    /\ epc = "playlist"
    /\ epc' = "done"
    /\ UNCHANGED <<mpc, mres, chan, urls, prev, kv, outcome, found>>
    /\ UNCHANGED <<clientVars, rangeVars, fetchVars, moreVars>>

Outcomes == {"ok", "err"}

InitMain ==
    /\ ClientInit
    /\ RangeIdle
    /\ FetchIdle
    /\ MoreIdle
    /\ epc = "discord"
    /\ mpc = "get_channel"
    /\ mres = "none"
    /\ chan = 1
    /\ urls = <<>>
    /\ prev = <<>>
    /\ kv \in {[present |-> FALSE, text |-> <<>>], [present |-> TRUE, text |-> <<"\n", "z">>]}
    /\ outcome = [c \in Channels |-> "pending"]
    /\ found = [c \in Channels |-> <<>>]

NextMain ==
    \/ \E r \in {"ok", "err", "no_guild"} : MainGetChannel(r)
    \/ \E r \in Outcomes : MainGetGuild(r)
    \/ \E r \in Outcomes, ls \in LinkLists : MainGetRange(r, ls)
    \/ \E ok \in BOOLEAN : MainKvGet(ok)
    \/ \E ok \in BOOLEAN : MainKvPut(ok)
    \/ CronAfterDiscord
    \/ CronAfterPlaylist

SpecMain == InitMain /\ [][NextMain]_vars

---------------------------------------------------------------------------
(* Claims about discord::mainfn *)

InText(link, text) == \E i \in 1..Len(text) : text[i] = link

\* C4: when one channel's pipeline fails with an error, the other channels are still
\* processed, and every link of every channel that succeeded is persisted.
C4_FailureIsolated ==
    (/\ mpc = "done"
     /\ \E c \in Channels : outcome[c] = "err")
    => /\ \A c \in Channels : outcome[c] # "pending"
       /\ \A c \in Channels :
              outcome[c] = "ok" => \A i \in 1..Len(found[c]) : InText(found[c][i], kv.text)

\* the bucket's value as a text, empty when the key is absent
Stored(b) == IF b.present THEN b.text ELSE <<>>

\* C17: the put of a non-empty batch leaves in the bucket the value it held before
\* (empty if the key was absent), a newline, and the batch's links joined by newlines.
C17_AppendKeepsPrefix ==
    [][(mpc = "kv_put" /\ mres' = "ok")
        => (kv'.present /\ kv'.text = Stored(kv) \o <<"\n">> \o join(urls))]_vars

\* a batch of several links was appended to a bucket that held a value
C17_Witness ==
    /\ mpc = "done" /\ mres = "ok"
    /\ prev # <<>> /\ Len(urls) > 1
    /\ kv.text = prev \o <<"\n">> \o join(urls)

\* C18: while no link has been collected the store is neither read nor written, and
\* a run that ends with no link from any channel returns success.
C18_EmptyRunSkipsStore ==
    [][/\ urls' = <<>> => (kv' = kv /\ mpc' \notin {"kv_get", "kv_put"})
       /\ (mpc = "get_range" /\ mpc' = "done" /\ outcome'[chan] = "ok") => mres' = "ok"]_vars

\* a run over all the channels found no link and left a stored value alone
C18_Witness ==
    /\ mpc = "done" /\ mres = "ok"
    /\ urls = <<>> /\ \A c \in Channels : outcome[c] = "ok"
    /\ kv.present

\* C19: the batch a run writes holds no link twice.
C19_BatchDeduplicated ==
    (mpc = "done" /\ mres = "ok" /\ urls # <<>>)
    => \A i, j \in 1..Len(urls) : urls[i] = urls[j] => i = j

\* C25: a channel whose metadata lacks the guild id fails as a value for that
\* channel only, without a panic or an abort of the invocation: no channel's
\* pipeline ends in the panic of guild_id.expect(..), which aborts the invocation.
C25_MissingGuildIsAFailureValue ==
    \A c \in Channels : outcome[c] # "panic"

\* C34: in one scheduled event discord::mainfn has finished when playlist::mainfn
\* starts, and an error returned by the harvest is only logged: the event goes on
\* to the playlist refresh.
C34_PlaylistRunsAfterHarvest ==
    [][/\ (epc' = "playlist" /\ epc # "playlist") => (epc = "discord" /\ mpc = "done")
       /\ (epc = "discord" /\ mpc = "done" /\ mres = "err") => epc' = "playlist"]_vars

\* the harvest returned an error and the playlist refresh is running
C34_Witness == epc = "playlist" /\ mpc = "done" /\ mres = "err"

\* C14: at every moment at most 8 channels' pipelines are in progress.
C14_AtMostEightInProgress == Cardinality(InProgress) <= 8

\* a pipeline is in progress after more than 8 others have been through
C14_Witness == chan > 8 /\ mpc = "get_range" /\ InProgress = {chan}

---------------------------------------------------------------------------
(* fetcher::Client::fetch: fetchcall under backon's Retry with adjust *)

MaxTimes == 5                \* with_max_times(5)
MinDelay == 1                \* with_min_delay(1 s)
MaxDelay == 60               \* ExponentialBuilder::default(): max_delay 60 s
Factor == 2                  \* ExponentialBuilder::default(): factor 2
FetchDefaultRetryAfter == 30
StatusOK == 200

MaxAttempts == 8     \* runs of fetchcall the model follows in one call of fetch

FetchStatuses == {200, 204, 429, 500}
FetchHeaders == {NoHeader, BadHeader, 45, 900, 1000}
Responses == [status : FetchStatuses, ra : FetchHeaders]

RECURSIVE Pow(_, _)
Pow(b, k) == IF k = 0 THEN 1 ELSE b * Pow(b, k - 1)

\* ExponentialBackoff::next after k durations: None once max_times durations were
\* handed out, else cur = min_delay * factor^k capped by max_delay, plus a jitter
\* below cur (jit: the largest one, else none)
NoDuration == -1
BackoffNext(k, jit) ==
    IF k >= MaxTimes THEN NoDuration
    ELSE LET cur == Min(MinDelay * Pow(Factor, k), MaxDelay)
         IN IF jit THEN cur + cur - 1 ELSE cur

\* fetcher.rs:133-139: the Retry-After header of the error as u64 seconds, 30 when
\* absent or unparseable
FetchRetryAfter(h) == IF h = NoHeader \/ h = BadHeader THEN FetchDefaultRetryAfter ELSE h

\* fetcher.rs:130-153: the closure given to adjust; err is the error of the attempt,
\* dur what the backoff handed out (NoDuration for None)
MutAdjustNoCeiling(err, dur) ==
    IF err.kind = "http" /\ err.status = TooManyRequests THEN FetchRetryAfter(err.ra) ELSE dur
adjust(err, dur) ==
    IF err.kind = "http"
    THEN IF err.status = TooManyRequests
         THEN IF FetchRetryAfter(err.ra) > RetryAfterCeil
              THEN NoDuration
              ELSE FetchRetryAfter(err.ra)
         ELSE dur
    ELSE dur

\* fetcher.rs:116-125: the outcome of fetchcall once it holds the response res
StatusCheck(res) ==
    IF res.status # StatusOK
    THEN [kind |-> "http", status |-> res.status, ra |-> res.ra]
    ELSE NoError

\* backon's Retry after one run of fetchcall that ended with err (NoError: Ok)
AfterAttempt(err, jit) ==
    IF err.kind = "none"
    THEN /\ fpc' = "done"
         /\ fres' = [kind |-> "ok", status |-> StatusOK, ra |-> NoHeader]
         /\ UNCHANGED <<retries, lastErr, fsleep, nsleeps>>
    ELSE /\ lastErr' = err
         /\ retries' = IF BackoffNext(retries, jit) = NoDuration THEN retries ELSE retries + 1
         /\ IF adjust(err, BackoffNext(retries, jit)) = NoDuration
            THEN /\ fpc' = "done"
                 /\ fres' = err
                 /\ UNCHANGED <<fsleep, nsleeps>>
            ELSE /\ fpc' = "sleep"
                 /\ fsleep' = adjust(err, BackoffNext(retries, jit))
                 /\ nsleeps' = nsleeps + 1
                 /\ fres' = fres

\* fetcher.rs:95-97: the cache holds an entry for the URL; no request is sent
MutHitSendsRequest(jit) ==
    /\ fpc = "call"
    /\ attempts < MaxAttempts
    /\ cache # NoEntry
    /\ attempts' = attempts + 1
    /\ netreqs' = netreqs + 1
    /\ lastResp' = cache
    /\ AfterAttempt(StatusCheck(cache), jit)
    /\ UNCHANGED cache
    /\ UNCHANGED <<clientVars, rangeVars, mainVars, moreVars>>
FetchCacheHit(jit) ==
    /\ fpc = "call"
    /\ attempts < MaxAttempts
    /\ cache # NoEntry
    /\ attempts' = attempts + 1
    /\ lastResp' = cache
    /\ AfterAttempt(StatusCheck(cache), jit)
    /\ UNCHANGED <<cache, netreqs>>
    /\ UNCHANGED <<clientVars, rangeVars, mainVars, moreVars>>

\* fetcher.rs:99-125: a miss; the request is sent, the response res arrives, a
\* clone of it is put into the cache (stored: the cache keeps it), then the status
\* is checked
FetchMiss(res, stored, jit) ==
    /\ fpc = "call"
    /\ attempts < MaxAttempts
    /\ cache = NoEntry
    /\ attempts' = attempts + 1
    /\ netreqs' = netreqs + 1
    /\ lastResp' = res
    /\ cache' = IF stored THEN res ELSE cache
    /\ AfterAttempt(StatusCheck(res), jit)
    /\ UNCHANGED <<clientVars, rangeVars, mainVars, moreVars>>

\* fetcher.rs:104, 111: send() fails (sent = FALSE), or the response res arrives
\* and cache.put fails; `?` ends the attempt with that error
FetchMissFails(res, sent, jit) ==
    /\ fpc = "call"
    /\ attempts < MaxAttempts
    /\ cache = NoEntry
    /\ attempts' = attempts + 1
    /\ netreqs' = netreqs + 1
    /\ lastResp' = IF sent THEN res ELSE NoEntry
    /\ AfterAttempt([kind |-> IF sent THEN "cache" ELSE "network", status |-> 0, ra |-> NoHeader], jit)
    /\ UNCHANGED cache
    /\ UNCHANGED <<clientVars, rangeVars, mainVars, moreVars>>

\* fetcher.rs:95: cache.get fails; `?` ends the attempt with that error
FetchCacheGetFails(jit) ==
    /\ fpc = "call"
    /\ attempts < MaxAttempts
    /\ attempts' = attempts + 1
    /\ lastResp' = NoEntry
    /\ AfterAttempt([kind |-> "cache", status |-> 0, ra |-> NoHeader], jit)
    /\ UNCHANGED <<cache, netreqs>>
    /\ UNCHANGED <<clientVars, rangeVars, mainVars, moreVars>>

\* the sleep between two attempts is over
FetchWake ==
    /\ fpc = "sleep"
    /\ fpc' = "call"
    /\ UNCHANGED <<attempts, retries, cache, fres, lastErr, lastResp, fsleep, nsleeps, netreqs>>
    /\ UNCHANGED <<clientVars, rangeVars, mainVars, moreVars>>

\* the Cache drops the entry (its max-age ran out, or it was evicted)
CacheExpire ==
    /\ fpc \in {"call", "sleep"}
    /\ cache # NoEntry
    /\ cache' = NoEntry
    /\ UNCHANGED <<fpc, attempts, retries, fres, lastErr, lastResp, fsleep, nsleeps, netreqs>>
    /\ UNCHANGED <<clientVars, rangeVars, mainVars, moreVars>>

InitFetch ==
    /\ ClientInit
    /\ RangeIdle
    /\ MainIdle
    /\ MoreIdle
    /\ fpc = "call"
    /\ attempts = 0
    /\ retries = 0
    /\ cache \in {NoEntry} \cup Responses
    /\ fres = NoError
    /\ lastErr = NoError
    /\ lastResp = NoEntry
    /\ fsleep = 0
    /\ nsleeps = 0
    /\ netreqs = 0

NextFetch ==
    \/ \E jit \in BOOLEAN : FetchCacheHit(jit)
    \/ \E jit \in BOOLEAN : FetchCacheGetFails(jit)
    \/ \E res \in Responses, stored \in BOOLEAN, jit \in BOOLEAN : FetchMiss(res, stored, jit)
    \/ \E res \in Responses, sent \in BOOLEAN, jit \in BOOLEAN : FetchMissFails(res, sent, jit)
    \/ FetchWake
    \/ CacheExpire

SpecFetch == InitFetch /\ [][NextFetch]_vars

---------------------------------------------------------------------------
(* Claims about fetcher::Client::fetch *)

\* C5: when an attempt fails with HTTP 429 and a Retry-After above 900 seconds, the
\* call has returned a failure: it neither sleeps nor runs another attempt.
C5_LongRetryAfterAborts ==
    (lastErr.kind = "http" /\ lastErr.status = TooManyRequests
        /\ lastErr.ra # NoHeader /\ lastErr.ra # BadHeader /\ lastErr.ra > RetryAfterCeil)
    => (fpc = "done" /\ fres = lastErr)

\* the abort happens on a retry, after earlier attempts that were followed by sleeps
C5_Witness ==
    /\ lastErr.kind = "http" /\ lastErr.status = TooManyRequests /\ lastErr.ra > RetryAfterCeil
    /\ fpc = "done"
    /\ attempts > 1

\* C9: one call of fetch runs at most 5 attempts, the first one included.
C9_AtMostFiveAttempts == attempts <= MaxTimes

\* C10: a response with a non-2xx status other than 429 is followed by a retry
\* while attempts remain, and by a failure that carries the status and the headers
\* of that response once they are exhausted.
C10_StatusFailure ==
    (/\ lastResp # NoEntry /\ ~ResOk(lastResp.status) /\ lastResp.status # TooManyRequests
     /\ fpc # "call")
    => \/ fpc = "sleep"
       \/ /\ fpc = "done"
          /\ fres = [kind |-> "http", status |-> lastResp.status, ra |-> lastResp.ra]

\* C11: a failure of the cache write does not fail the fetch and triggers no retry:
\* when the request was answered with 200 and cache.put failed, the call has
\* returned the body.
C11_CacheWriteFailureTolerated ==
    (/\ fpc # "call"
     /\ lastResp # NoEntry /\ lastResp.status = StatusOK
     /\ lastErr.kind = "cache")
    => (fpc = "done" /\ fres.kind = "ok")

\* C12: an attempt that finds an entry for the URL in the cache sends no request and
\* works on that entry; a request is sent only when the cache holds none.
C12_HitSendsNothing ==
    [][/\ (netreqs' # netreqs => cache = NoEntry)
       /\ ((cache # NoEntry /\ attempts' # attempts /\ lastResp' # NoEntry)
              => (lastResp' = cache /\ netreqs' = netreqs))]_vars

\* the call was answered from the cache alone
C12_Witness ==
    /\ fpc = "done" /\ fres.kind = "ok"
    /\ attempts = 1 /\ netreqs = 0
    /\ lastResp = cache /\ cache # NoEntry

\* C24: fetch writes a response to the cache only when the request succeeded: a
\* failure response (429 or any other status than 200) is never stored, and no run
\* of fetchcall (a retry of the call, or a later fetch of the URL) is answered from
\* a cached failure.
C24_OnlySuccessCached ==
    [][/\ (cache' # cache /\ cache' # NoEntry) => cache'.status = StatusOK
       /\ (attempts' # attempts /\ netreqs' = netreqs /\ lastResp' # NoEntry)
          => lastResp'.status = StatusOK]_vars

\* C16: a 429 without a Retry-After header, or with one that does not parse, is
\* followed by a delay of 30 seconds, in fetch and in get_json alike.
C16_DefaultDelayThirty ==
    /\ (/\ fpc = "sleep"
        /\ lastErr.kind = "http" /\ lastErr.status = TooManyRequests
        /\ lastErr.ra \in {NoHeader, BadHeader})
       => fsleep = 30
    /\ \A c \in Calls :
          (call[c].pc = "sleep429" /\ call[c].hdr \in {NoHeader, BadHeader})
          => call[c].d = 30

---------------------------------------------------------------------------
(* KvCache: get_json, get_text, set, set_text over one key of the KvStore *)

\* the texts a key may hold: "x" is no JSON, "1" is the JSON of the number one,
\* "\"x\"" the JSON of the string x
Texts == {"x", "1", "\"x\""}
Values == {"one", "str_x"}

\* serde_json::to_string
ser(v) == IF v = "one" THEN "1" ELSE "\"x\""

\* serde_json::from_str
de(text) ==
    CASE text = "1" -> [ok |-> TRUE, v |-> "one"]
      [] text = "\"x\"" -> [ok |-> TRUE, v |-> "str_x"]
      [] OTHER -> [ok |-> FALSE, v |-> ""]

\* kvcache.rs:25-31: kv.get(key).text() on the entry e
get_text(e) ==
    IF e.present THEN [kind |-> "text", ok |-> TRUE, some |-> TRUE, v |-> e.text]
    ELSE [kind |-> "text", ok |-> TRUE, some |-> FALSE, v |-> ""]

\* kvcache.rs:14-23: kv.get(key).json() on the entry e
get_json(e) ==
    IF ~e.present THEN [kind |-> "json", ok |-> TRUE, some |-> FALSE, v |-> ""]
    ELSE IF de(e.text).ok THEN [kind |-> "json", ok |-> TRUE, some |-> TRUE, v |-> de(e.text).v]
    ELSE [kind |-> "json", ok |-> FALSE, some |-> FALSE, v |-> ""]

\* what a get leaves in the store: a get only reads
MutGetTakesEntry(e) == Absent
StoreAfterGet(e) == e

\* a get has returned res
NoteGet(res) ==
    kvc' = [kvc EXCEPT !.entry = StoreAfterGet(kvc.entry),
                       !.n = IF kvc.n < 2 THEN kvc.n + 1 ELSE 2,
                       !.prevr = kvc.last, !.last = res,
                       !.between = kvc.since, !.since = Quiet]

KvcRest == UNCHANGED <<clientVars, rangeVars, mainVars, fetchVars, snow, pl, app, cell>>

KvcGetText ==
    /\ kvc.pc = "on"
    /\ NoteGet(get_text(kvc.entry))
    /\ KvcRest

KvcGetJson ==
    /\ kvc.pc = "on"
    /\ NoteGet(get_json(kvc.entry))
    /\ KvcRest

\* kvcache.rs:22, 30: the store fails the read, Err("Failed to get kv")
KvcGetFails(kind) ==
    /\ kvc.pc = "on"
    /\ NoteGet([kind |-> kind, ok |-> FALSE, some |-> FALSE, v |-> ""])
    /\ KvcRest

\* kvcache.rs:33-44: set(key, value, ttl); the put succeeds or fails
KvcSet(v, ok) ==
    /\ kvc.pc = "on"
    /\ kvc' = [kvc EXCEPT !.entry = IF ok THEN [present |-> TRUE, text |-> ser(v), exp |-> TRUE] ELSE @,
                          !.since.set = TRUE]
    /\ KvcRest

\* kvcache.rs:46-59: set_text(key, value, ttl)
KvcSetText(text, ok) ==
    /\ kvc.pc = "on"
    /\ kvc' = [kvc EXCEPT !.entry = IF ok THEN [present |-> TRUE, text |-> text, exp |-> TRUE] ELSE @,
                          !.since.set = TRUE]
    /\ KvcRest

\* kvcache.rs:40, 55: expiration_ttl(ttl): the entry's time to live runs out
KvcExpire ==
    /\ kvc.pc = "on"
    /\ kvc.entry.present /\ kvc.entry.exp
    /\ kvc' = [kvc EXCEPT !.entry = Absent, !.since.lapsed = TRUE]
    /\ KvcRest

\* lib.rs:105-110: another writer of the same KvStore puts a value under the key
KvcForeignPut(text) ==
    /\ kvc.pc = "on"
    /\ kvc' = [kvc EXCEPT !.entry = [present |-> TRUE, text |-> text, exp |-> FALSE],
                          !.since.foreign = TRUE]
    /\ KvcRest

InitKvc ==
    /\ ClientInit
    /\ RangeIdle
    /\ MainIdle
    /\ FetchIdle
    /\ SnowIdle
    /\ PlIdle
    /\ AppIdle
    /\ CellIdle
    /\ kvc \in [pc : {"on"},
                entry : {Absent} \cup [present : {TRUE}, text : Texts, exp : BOOLEAN],
                n : {0}, last : {NoResult}, prevr : {NoResult},
                between : {Quiet}, since : {Quiet}]

NextKvc ==
    \/ KvcGetText
    \/ KvcGetJson
    \/ \E kind \in {"text", "json"} : KvcGetFails(kind)
    \/ \E v \in Values, ok \in BOOLEAN : KvcSet(v, ok)
    \/ \E t \in Texts, ok \in BOOLEAN : KvcSetText(t, ok)
    \/ KvcExpire
    \/ \E t \in Texts : KvcForeignPut(t)

SpecKvc == InitKvc /\ [][NextKvc]_vars

---------------------------------------------------------------------------
(* Claims about KvCache *)

\* the last two calls were gets of the same kind with no set between them
TwoGets == kvc.n = 2 /\ kvc.last.kind = kvc.prevr.kind /\ ~kvc.between.set

---------------------------------------------------------------------------
(* playlist::mainfn_single: the listing pages of one playlist *)

MaxPages == 10       \* the highest page number the first listing page names

\* every page future has completed: try_join_all returns Ok (playlist.rs:141-148)
Settle(st) ==
    IF \A x \in DOMAIN st : st[x] = "done"
    THEN pl' = [pl EXCEPT !.st = st, !.pc = "done", !.res = "ok"]
    ELSE pl' = [pl EXCEPT !.st = st]

PlRest == UNCHANGED <<clientVars, rangeVars, mainVars, fetchVars, snow, kvc, app, cell>>

\* playlist.rs:109-141: the first page arrives (ok) and names pages up to mp; one
\* future per page 2..mp is built and try_join_all polls them all, each up to the
\* first await of its get_text. A failed first fetch or page number ends the call.
PlListing(mp, ok) ==
    /\ pl.pc = "listing"
    /\ IF ok
       THEN IF mp < 2
            THEN pl' = [pl EXCEPT !.pc = "done", !.res = "ok", !.maxpage = mp]
            ELSE pl' = [pl EXCEPT !.pc = "pages", !.maxpage = mp,
                                  !.st = [x \in 2..mp |-> "wait"]]
       ELSE pl' = [pl EXCEPT !.pc = "done", !.res = "err"]
    /\ PlRest

\* fetcher.rs:99-104: the fetch of page x misses the cache and sends its request
PlSend(x) ==
    /\ pl.pc = "pages"
    /\ x \in DOMAIN pl.st
    /\ pl.st[x] = "wait"
    /\ pl' = [pl EXCEPT !.st[x] = "inflight"]
    /\ PlRest

\* fetcher.rs:95-97: the fetch of page x is answered by the cache
PlHit(x) ==
    /\ pl.pc = "pages"
    /\ x \in DOMAIN pl.st
    /\ pl.st[x] = "wait"
    /\ Settle([pl.st EXCEPT ![x] = "done"])
    /\ PlRest

\* the response for page x arrives: the page is done ("ok"), the fetch sleeps and
\* runs again ("retry"), or the fetch gives up and try_join_all returns that error
\* at once, dropping the other futures ("err")
PlRecv(x, r) ==
    /\ pl.pc = "pages"
    /\ x \in DOMAIN pl.st
    /\ pl.st[x] = "inflight"
    /\ CASE r = "ok" -> Settle([pl.st EXCEPT ![x] = "done"])
         [] r = "retry" -> pl' = [pl EXCEPT !.st[x] = "wait"]
         [] OTHER -> pl' = [pl EXCEPT !.pc = "done", !.res = "err"]
    /\ PlRest

InitPlaylist ==
    /\ ClientInit
    /\ RangeIdle
    /\ MainIdle
    /\ FetchIdle
    /\ SnowIdle
    /\ KvcIdle
    /\ AppIdle
    /\ CellIdle
    /\ pl = [pc |-> "listing", maxpage |-> 0, st |-> <<>>, res |-> "none"]

NextPlaylist ==
    \/ \E mp \in 1..MaxPages, ok \in BOOLEAN : PlListing(mp, ok)
    \/ \E x \in 2..MaxPages : PlSend(x)
    \/ \E x \in 2..MaxPages : PlHit(x)
    \/ \E x \in 2..MaxPages, r \in {"ok", "retry", "err"} : PlRecv(x, r)

SpecPlaylist == InitPlaylist /\ [][NextPlaylist]_vars

\* the requests in flight through the client of the call
InFlight ==
    IF pl.pc = "listing" THEN 1
    ELSE IF pl.pc = "pages" THEN Cardinality({x \in DOMAIN pl.st : pl.st[x] = "inflight"})
    ELSE 0

\* C26: the number of HTTP requests simultaneously in flight through one shared
\* fetch client never exceeds the ceiling of 8, also while mainfn_single fetches the
\* listing pages 2..maxpage, whatever maxpage is.
C26_AtMostEightInFlight == InFlight <= 8

---------------------------------------------------------------------------
(* Two invocations of discord::mainfn at the append to one bucket key *)

Invocations == {1, 2}

\* the urls each invocation has collected when it reaches the append (non-empty,
\* or mainfn would have returned at discord.rs:459-465)
Batches == [Invocations -> {<<"a">>, <<"b", "c">>, <<"d">>}]

AppRest == UNCHANGED <<clientVars, rangeVars, mainVars, fetchVars, snow, kvc, pl, cell>>

\* discord.rs:490-495: the invocation reads the bucket; a failed get panics
AppKvGet(i, ok) ==
    /\ i \in DOMAIN app.inv
    /\ app.inv[i].pc = "kv_get"
    /\ IF ok
       THEN app' = [app EXCEPT !.inv[i].pc = "kv_put", !.inv[i].prev = Stored(app.kv),
                               !.raced = @ \/ \E j \in Invocations \ {i} : app.inv[j].pc = "kv_put"]
       ELSE app' = [app EXCEPT !.inv[i].pc = "panic"]
    /\ AppRest

\* discord.rs:496-507: newval = prev + "\n" + kvvalue is put; a failed put panics
MutPutAppendsToCurrent(i, ok) ==
    /\ i \in DOMAIN app.inv
    /\ app.inv[i].pc = "kv_put"
    /\ IF ok
       THEN app' = [app EXCEPT !.inv[i].pc = "done", !.inv[i].puts = @ + 1,
                               !.kv = [present |-> TRUE,
                                       text |-> Stored(app.kv) \o <<"\n">> \o join(app.inv[i].urls)]]
       ELSE app' = [app EXCEPT !.inv[i].pc = "panic"]
    /\ AppRest
AppKvPut(i, ok) ==
    /\ i \in DOMAIN app.inv
    /\ app.inv[i].pc = "kv_put"
    /\ IF ok
       THEN app' = [app EXCEPT !.inv[i].pc = "done", !.inv[i].puts = @ + 1,
                               !.kv = [present |-> TRUE,
                                       text |-> app.inv[i].prev \o <<"\n">> \o join(app.inv[i].urls)]]
       ELSE app' = [app EXCEPT !.inv[i].pc = "panic"]
    /\ AppRest

InitAppend ==
    /\ ClientInit
    /\ RangeIdle
    /\ MainIdle
    /\ FetchIdle
    /\ SnowIdle
    /\ KvcIdle
    /\ PlIdle
    /\ CellIdle
    /\ \E b \in Batches, k \in {[present |-> FALSE, text |-> <<>>],
                                [present |-> TRUE, text |-> <<"\n", "z">>]} :
           app = [kv |-> k,
                  inv |-> [i \in Invocations |->
                              [pc |-> "kv_get", prev |-> <<>>, urls |-> b[i], puts |-> 0]],
                  raced |-> FALSE]

NextAppend ==
    \/ \E i \in Invocations, ok \in BOOLEAN : AppKvGet(i, ok)
    \/ \E i \in Invocations, ok \in BOOLEAN : AppKvPut(i, ok)

SpecAppend == InitAppend /\ [][NextAppend]_vars

\* the bucket holds every link of invocation i's batch
HoldsBatch(i) == \A k \in 1..Len(app.inv[i].urls) : InText(app.inv[i].urls[k], Stored(app.kv))

\* the bucket holds what both invocations read plus the batch of one of them only
OneBatchSurvives ==
    \E i \in Invocations :
        /\ \A j \in Invocations : app.inv[j].prev = app.inv[i].prev
        /\ Stored(app.kv) = app.inv[i].prev \o <<"\n">> \o join(app.inv[i].urls)

\* C27: the append is not atomic: when two invocations append to the same key and
\* both read the value before either writes, the final value lacks the batch of one
\* of them; and a single run of mainfn writes the bucket at most once.
C27_RacingAppendLosesABatch ==
    /\ \A i \in DOMAIN app.inv : app.inv[i].puts <= 1
    /\ (/\ DOMAIN app.inv = Invocations
        /\ \A i \in Invocations : app.inv[i].pc = "done"
        /\ app.raced)
       => OneBatchSurvives

\* both invocations read, then both wrote
C27_Witness ==
    /\ DOMAIN app.inv = Invocations
    /\ \A i \in Invocations : app.inv[i].pc = "done" /\ app.inv[i].puts = 1
    /\ app.raced
    /\ app.inv[1].urls # app.inv[2].urls
    /\ HoldsBatch(2) /\ ~HoldsBatch(1)

---------------------------------------------------------------------------
(* The shared cooldown cell: Rc<RefCell<Option<Instant>>> under concurrent get_json *)

NTasks == 3          \* get_json calls interleaved on the clones of one client

Tasks == 1..NTasks

\* RefCell's borrow flag: the number of live Ref guards, or -1 under a live RefMut.
\* borrow() panics under a live RefMut, borrow_mut() under any live guard.
CanBorrow(flag) == flag >= 0
CanBorrowMut(flag) == flag = 0

CellRest == UNCHANGED <<clientVars, rangeVars, mainVars, fetchVars, snow, kvc, pl, app>>

Panicked(t) == [cell EXCEPT !.task[t] = [pc |-> "panic", held |-> 0]]

\* discord.rs:36-50: `let retry_after = *self.retry_after.borrow();` copies the
\* content, the Ref guard being dropped at the end of the statement; then the task
\* sleeps until the cooldown (ahead: it lies in the future) or sends its request
MutRefHeldAcrossSleep(t, ahead) ==
    IF ~CanBorrow(cell.flag)
    THEN Panicked(t)
    ELSE IF cell.when # 0 /\ ahead
         THEN [cell EXCEPT !.task[t] = [pc |-> "cooldown", held |-> 1], !.flag = @ + 1]
         ELSE [cell EXCEPT !.task[t] = [pc |-> "inflight", held |-> 0]]
CellEnter(t, ahead) ==
    IF ~CanBorrow(cell.flag)
    THEN Panicked(t)
    ELSE IF cell.when # 0 /\ ahead
         THEN [cell EXCEPT !.task[t] = [pc |-> "cooldown", held |-> 0]]
         ELSE [cell EXCEPT !.task[t] = [pc |-> "inflight", held |-> 0]]

\* a task calls get_json
CellStart(t, ahead) ==
    /\ cell.task[t].pc = "idle"
    /\ cell' = CellEnter(t, ahead)
    /\ CellRest

\* discord.rs:41-50: the cooldown sleep ends (a guard alive across it is dropped
\* with the `if let`), the request is sent
CellWakeCooldown(t) ==
    /\ cell.task[t].pc = "cooldown"
    /\ cell' = [cell EXCEPT !.task[t] = [pc |-> "inflight", held |-> 0],
                            !.flag = @ - cell.task[t].held]
    /\ CellRest

\* discord.rs:54-66: a 429 arrives; `*self.retry_after.borrow_mut() = Some(next_time);`
\* then the task sleeps
CellRecv429(t) ==
    /\ cell.task[t].pc = "inflight"
    /\ cell' = IF CanBorrowMut(cell.flag)
               THEN [cell EXCEPT !.task[t].pc = "sleep429", !.when = t]
               ELSE Panicked(t)
    /\ CellRest

\* discord.rs:66-67: the sleep ends and get_json calls itself
CellWakeRetry(t, ahead) ==
    /\ cell.task[t].pc = "sleep429"
    /\ cell' = CellEnter(t, ahead)
    /\ CellRest

\* discord.rs:71-81: any other status; `*self.retry_after.borrow_mut() = None;`
\* then the call returns
CellRecvStatus(t) ==
    /\ cell.task[t].pc = "inflight"
    /\ cell' = IF CanBorrowMut(cell.flag)
               THEN [cell EXCEPT !.task[t].pc = "idle", !.when = 0]
               ELSE Panicked(t)
    /\ CellRest

\* discord.rs:46-51: send() fails: the call returns without touching the cell
CellNetError(t) ==
    /\ cell.task[t].pc = "inflight"
    /\ cell' = [cell EXCEPT !.task[t].pc = "idle"]
    /\ CellRest

InitCell ==
    /\ ClientInit
    /\ RangeIdle
    /\ MainIdle
    /\ FetchIdle
    /\ SnowIdle
    /\ KvcIdle
    /\ PlIdle
    /\ AppIdle
    /\ cell = [flag |-> 0, when |-> 0, task |-> [t \in Tasks |-> [pc |-> "idle", held |-> 0]]]

NextCell ==
    \/ \E t \in Tasks, ahead \in BOOLEAN : CellStart(t, ahead)
    \/ \E t \in Tasks : CellWakeCooldown(t)
    \/ \E t \in Tasks : CellRecv429(t)
    \/ \E t \in Tasks, ahead \in BOOLEAN : CellWakeRetry(t, ahead)
    \/ \E t \in Tasks : CellRecvStatus(t)
    \/ \E t \in Tasks : CellNetError(t)

SpecCell == InitCell /\ [][NextCell]_vars

\* C29: concurrent calls of get_json on one client never fail on access to the
\* cooldown cell and never block on it: whenever the tasks are suspended (network
\* wait or sleep) no borrow of the cell is alive, so every read (borrow) and every
\* write (borrow_mut) completes, and every suspended task waits for a response or a
\* timer only.
C29_CellNeverFails ==
    /\ cell.flag = 0
    /\ \A t \in DOMAIN cell.task :
           /\ cell.task[t].pc \in {"idle", "cooldown", "inflight", "sleep429"}
           /\ cell.task[t].held = 0

\* one task sleeps on the cooldown it read, another sleeps after writing it, a
\* third has its request in flight
C29_Witness ==
    /\ DOMAIN cell.task = Tasks
    /\ \E t, u, v \in Tasks :
           /\ cell.task[t].pc = "cooldown"
           /\ cell.task[u].pc = "sleep429" /\ cell.when = u
           /\ cell.task[v].pc = "inflight"

====
